---------------------------- MODULE Spec2Model ----------------------------
(***************************************************************************)
(* State machine of the NaturalLanguageForm component of the calendar      *)
(* assistant UI: the React state of the component, the asynchronous        *)
(* handlers that are in progress (natural-language request, bulk           *)
(* scheduling request, get-events invocations with their retry loop) and   *)
(* the requests in flight.                                                 *)
(*                                                                         *)
(* Representation choices:                                                 *)
(*  - a time string is a record [t, fmt]: the instant it denotes and the   *)
(*    textual format it is written in ("iso" is the format produced by     *)
(*    Date.prototype.toISOString, "offset" any other ISO-8601 spelling of  *)
(*    the same instant).  Two time strings are === exactly when both       *)
(*    fields agree.                                                        *)
(*  - a text is a sequence of characters.                                  *)
(*  - a colour is its <<r, g, b>> triple.                                  *)
(*  - a Date of the visible range is an instant counted in half days, so   *)
(*    that two instants may fall on the same calendar day.                 *)
(*  - the clock (Date.now()) is in milliseconds.                           *)
(***************************************************************************)
EXTENDS Integers, Sequences, FiniteSets, TLC

VARIABLES
    text,              \* useState("")       input text
    loading,           \* useState(false)
    error,             \* useState("")
    availableSlots,    \* useState([])
    calendarEvents,    \* useState([])       suggested slots of the last find_time answer
    existingEvents,    \* useState([])
    showCalendar,      \* useState(false)
    eventDetails,      \* useState({})
    selectedSlots,     \* useState([])
    eventsCache,       \* useState({})       cacheKey -> [data, expiry]
    fetchingEvents,    \* useState(false)
    chatMessages,      \* useState([])
    calendars,         \* useState([])
    selectedCalendars, \* useState([])
    dateRange,         \* useState({start, end})
    now,               \* Date.now()
    submit,            \* the handleSubmit invocation awaiting its response, or NoCall
    sched,             \* the handleScheduleSelected invocation awaiting Promise.all, or NoCall
    posts,             \* schedule-selected-slot requests in flight
    fetches,           \* fetchExistingEvents invocations past their first await
    mounted,           \* whether the mount effect fetchData has completed
    popularCommands,   \* localStorage 'popularCommands': [text, count] entries
    effectPending,     \* a render was committed whose effects have not run yet
    closure,           \* the state seen by the window listeners registered by the last effect run
    prefTimers,        \* pending 500 ms timers of the sendPreferences effect
    prefPosts,         \* bodies of the set-preferred-calendars requests issued, in order
    itemTimer,         \* the pending 50 ms timer of handleScheduleItem, or NoCall
    modifies,          \* modify-selected-event requests in flight (calendar helper functions)
    windowEvents       \* the window events dispatched by the helper functions, in order

vars == <<text, loading, error, availableSlots, calendarEvents, existingEvents,
          showCalendar, eventDetails, selectedSlots, eventsCache, fetchingEvents,
          chatMessages, calendars, selectedCalendars, dateRange, now, submit,
          sched, posts, fetches, mounted, popularCommands, effectPending,
          closure, prefTimers, prefPosts, itemTimer, modifies, windowEvents>>

-----------------------------------------------------------------------------
(* Bounds of the model *)

MaxMsgs == 4        \* chat messages kept in the model
MaxEarlyTicks == 1  \* clock points 0, 2000, ... before the cache lifetime has passed

-----------------------------------------------------------------------------
(* Generic helpers *)

NoCall == [pc |-> "none"]

Range(s) == {s[i] : i \in DOMAIN s}

RECURSIVE SelectSeqBy(_, _)
SelectSeqBy(s, keep) ==
    IF s = <<>> THEN <<>>
    ELSE IF keep[Head(s)] THEN <<Head(s)>> \o SelectSeqBy(Tail(s), keep)
         ELSE SelectSeqBy(Tail(s), keep)

RemoveAt(s, i) == SubSeq(s, 1, i - 1) \o SubSeq(s, i + 1, Len(s))

EmptyCache == [k \in {} |-> 0]


-----------------------------------------------------------------------------
(* Values exchanged with the backend and the user *)

Undefined == "undefined"
UndefinedText == <<"undefined">>

\* character sequences the user can have in the input box
Texts == { <<>>, <<" ">>, <<"a", ".", "b">> }

Iso(t) == [t |-> t, fmt |-> "iso"]
Offset(t) == [t |-> t, fmt |-> "offset"]

\* new Date(string): the instant a time string denotes
ParseDate(s) == s.t

\* Date.prototype.toISOString: always the "iso" spelling
toISOString(d) == [t |-> d, fmt |-> "iso"]

\* suggested slots as the backend can send them in response.data.events
\* (E1 is spelled the way toISOString spells it, E2 with a zone offset)
E1 == [start |-> Iso(0), end |-> Iso(1)]
E2 == [start |-> Offset(0), end |-> Offset(2)]
E3 == [start |-> Iso(1), end |-> Iso(2)]
SlotLists == { <<>>, <<E1, E2>>, <<E1, E3, E1>> }

Intents == {"find_time", "check_free_time", "view_events", "Create event", "other"}

HumanText == <<"h">>
BackendMessage == <<"m">>
CalendarTitle == <<"T">>

\* response.data of POST /api/natural-language-event
NLResponseShapes ==
    [success : BOOLEAN,
     intent : Intents,
     humanizedResponse : {UndefinedText, HumanText},
     message : {BackendMessage},
     events : SlotLists,
     insufficientTime : BOOLEAN,
     calendar_title : {UndefinedText, CalendarTitle},
     predicted_calendar : {Undefined},
     eventLink : {UndefinedText}]

\* availableSlots carries the start and end of the suggested events
NLResponses ==
    { [success |-> r.success, intent |-> r.intent,
       humanizedResponse |-> r.humanizedResponse, message |-> r.message,
       events |-> r.events, availableSlots |-> r.events,
       insufficientTime |-> r.insufficientTime, calendar_title |-> r.calendar_title,
       predicted_calendar |-> r.predicted_calendar, eventLink |-> r.eventLink]
      : r \in NLResponseShapes }

\* JavaScript truthiness of an optional string
Truthy(s) == s # UndefinedText /\ s # <<>>

Or(a, b) == IF Truthy(a) THEN a ELSE b

-----------------------------------------------------------------------------
(* Text helpers *)

IsSpace(c) == c = " "

RECURSIVE TrimStart(_)
TrimStart(s) ==
    IF s # <<>> /\ IsSpace(Head(s)) THEN TrimStart(Tail(s)) ELSE s

RECURSIVE TrimEnd(_)
TrimEnd(s) ==
    IF s # <<>> /\ IsSpace(s[Len(s)]) THEN TrimEnd(SubSeq(s, 1, Len(s) - 1)) ELSE s

\* String.prototype.trim
Trim(s) == TrimEnd(TrimStart(s))

SummaryMaxLen == 50

\* text.split('.')[0]
RECURSIVE FirstSentence(_)
FirstSentence(s) ==
    IF s = <<>> \/ Head(s) = "." THEN <<>>
    ELSE <<Head(s)>> \o FirstSentence(Tail(s))

getEventSummaryFromText(t) ==
    LET firstSentence == FirstSentence(t)
    IN IF Len(firstSentence) <= SummaryMaxLen THEN firstSentence
       ELSE SubSeq(firstSentence, 1, SummaryMaxLen) \o <<".", ".", ".">>

-----------------------------------------------------------------------------
(* Chat messages *)

Msg(sender, type, content) == [sender |-> sender, type |-> type, content |-> content]

WelcomeMsg == Msg("bot", "welcome", <<>>)

-----------------------------------------------------------------------------
(* Colours *)

SelectedBackground == <<76, 175, 80>>     \* '#4caf50'
SelectedBorder == <<46, 125, 50>>         \* '#2e7d32'
SuggestedBackground == <<139, 195, 74>>   \* '#8bc34a'
SuggestedBorder == <<104, 159, 56>>       \* '#689f38'
White == <<255, 255, 255>>                \* '#ffffff'
DefaultCalendarColor == <<30, 136, 229>>  \* '#1E88E5'
DefaultCalendarDarker == <<21, 101, 192>> \* '#1565C0'

-----------------------------------------------------------------------------
(* getAllEvents *)

\* a variant that compares the start only
IsSelectedInByStart(slots, event) ==
    \E k \in DOMAIN slots : slots[k].start = event.start

\* selectedSlots.some(slot => slot.start === event.start && slot.end === event.end)
IsSelectedIn(slots, event) ==
    \E k \in DOMAIN slots : slots[k].start = event.start /\ slots[k].end = event.end

SuggestedEntry(event, isSelected) ==
    [start |-> event.start,
     end |-> event.end,
     backgroundColor |-> IF isSelected THEN SelectedBackground ELSE SuggestedBackground,
     borderColor |-> IF isSelected THEN SelectedBorder ELSE SuggestedBorder,
     textColor |-> White,
     title |-> IF isSelected THEN "Selected Time" ELSE "Suggested Time",
     display |-> "block",
     extendedProps |-> [suggestedSlot |-> TRUE]]

\* a variant that shows only the suggestions once there are any
GetAllEventsOfSuggestionsOnly(existing, suggested, slots) ==
    IF Len(suggested) > 0
    THEN [i \in DOMAIN suggested |->
             SuggestedEntry(suggested[i], IsSelectedIn(slots, suggested[i]))]
    ELSE existing

GetAllEventsOf(existing, suggested, slots) ==
    existing \o [i \in DOMAIN suggested |->
                    SuggestedEntry(suggested[i], IsSelectedIn(slots, suggested[i]))]

getAllEvents == GetAllEventsOf(existingEvents, calendarEvents, selectedSlots)

\* the widget's event object handed to eventClick
IsSuggestedSlot(entry) ==
    "extendedProps" \in DOMAIN entry /\ entry.extendedProps.suggestedSlot

-----------------------------------------------------------------------------
(* handleEventClick *)

EventData(entry) ==
    [start |-> toISOString(ParseDate(entry.start)),
     end |-> toISOString(ParseDate(entry.end))]

\* a variant that recognises a selected slot by its start only
ToggleSlotByStart(prev, eventData) ==
    LET same(slot) == slot.start = eventData.start
        isAlreadySelected == \E k \in DOMAIN prev : same(prev[k])
    IN IF isAlreadySelected
       THEN SelectSeqBy(prev, [s \in Range(prev) |-> ~same(s)])
       ELSE Append(prev, eventData)

\* the updater passed to setSelectedSlots
ToggleSlot(prev, eventData) ==
    LET same(slot) == slot.start = eventData.start /\ slot.end = eventData.end
        isAlreadySelected == \E k \in DOMAIN prev : same(prev[k])
    IN IF isAlreadySelected
       THEN SelectSeqBy(prev, [s \in Range(prev) |-> ~same(s)])
       ELSE Append(prev, eventData)

-----------------------------------------------------------------------------
(* Calendars and existing events *)

CalA == [id |-> "a", summary |-> "Personal", primary |-> TRUE,
         backgroundColor |-> <<11, 128, 67>>]
CalB == [id |-> "b", summary |-> "Work", primary |-> FALSE]
AllCalendars == <<CalA, CalB>>

\* response.data.calendars of GET /api/get-preferred-calendars
PrefLists == { <<>>, <<CalB>> }

\* a saved preference whose copy of the calendar is out of date, and one whose
\* calendar is no longer in the list
SavedB == [id |-> "b", summary |-> "Job", primary |-> FALSE]
SavedX == [id |-> "x", summary |-> "Gone", primary |-> FALSE]
SavedPrefLists == { <<>>, <<CalB>>, <<SavedX, SavedB>> }

\* calendar lists the backend can send: primary first, primary last, no primary
CalendarLists == { AllCalendars, <<CalB, CalA>>, <<CalB>> }

\* events as the backend can send them for GET /api/get-events
B1 == [id |-> "e1", title |-> "Standup", summary |-> Undefined,
       start |-> Iso(0), end |-> Iso(1), calendarId |-> "a"]
B2 == [id |-> "e2", title |-> Undefined, summary |-> Undefined,
       start |-> Iso(2), end |-> Iso(3), calendarId |-> "zz"]
EventLists == { <<>>, <<B1, B2>> }

GetEventsResponses == [success : BOOLEAN, events : EventLists]

NODE_ENV == "production"

\* the three mock events added in development mode when the backend has none
MockEvents ==
    << [id |-> "mock-1", title |-> "Team Meeting", summary |-> Undefined,
        start |-> Iso(0), end |-> Iso(1), calendarId |-> "primary"],
       [id |-> "mock-2", title |-> "Lunch Break", summary |-> Undefined,
        start |-> Iso(2), end |-> Iso(3), calendarId |-> "primary"],
       [id |-> "mock-3", title |-> "Project Review", summary |-> Undefined,
        start |-> Iso(4), end |-> Iso(5), calendarId |-> "work"] >>

TruthyStr(s) == s # Undefined /\ s # ""

\* darkenColor(color, 0.2) on a hex colour: every channel floor(c * 0.8)
darkenColor(color) == [k \in DOMAIN color |-> (color[k] * 8) \div 10]

\* calendars.find(cal => cal.id === calendarId), then its colour or the default
\* (calendar colours are hex colours; the rgba branch is not exercised)
getCalendarColor(cals, calendarId, darker) ==
    LET matches == {k \in DOMAIN cals : cals[k].id = calendarId}
        first == CHOOSE k \in matches : \A l \in matches : k <= l
    IN IF matches # {} /\ "backgroundColor" \in DOMAIN cals[first]
       THEN IF darker THEN darkenColor(cals[first].backgroundColor)
            ELSE cals[first].backgroundColor
       ELSE IF darker THEN DefaultCalendarDarker ELSE DefaultCalendarColor

WithMetadata(cals, event) ==
    [id |-> event.id,
     title |-> IF TruthyStr(event.title) THEN event.title
               ELSE IF TruthyStr(event.summary) THEN event.summary
               ELSE "Untitled Event",
     summary |-> event.summary,
     start |-> event.start,
     end |-> event.end,
     calendarId |-> event.calendarId,
     existingEvent |-> TRUE,
     backgroundColor |-> IF "backgroundColor" \in DOMAIN event THEN event.backgroundColor
                         ELSE getCalendarColor(cals, event.calendarId, FALSE),
     borderColor |-> IF "borderColor" \in DOMAIN event THEN event.borderColor
                     ELSE getCalendarColor(cals, event.calendarId, TRUE),
     textColor |-> IF "textColor" \in DOMAIN event THEN event.textColor ELSE White,
     classNames |-> <<"calendar-event">>]

-----------------------------------------------------------------------------
(* Visible date range, cache key, clock *)

\* instants in half days; the initial range is [now, now + 7 days]
InitialRange == [start |-> 0, end |-> 14]
DateRanges == { InitialRange, [start |-> 1, end |-> 15], [start |-> 14, end |-> 28] }

\* formatDate: the local calendar day YYYY-MM-DD of an instant
formatDate(d) == ToString(d \div 2)

RECURSIVE Join(_, _)
Join(ids, sep) ==
    IF ids = <<>> THEN <<>>
    ELSE IF Len(ids) = 1 THEN <<ids[1]>>
    ELSE <<ids[1], sep>> \o Join(Tail(ids), sep)

CalendarIds(selected) == Join([k \in DOMAIN selected |-> selected[k].id], ",")

\* `${startDate}_${endDate}_${calendarIds}`
CacheKey(startDate, endDate, calendarIds) ==
    <<startDate, "_", endDate, "_">> \o calendarIds

\* a variant with one more attempt
maxRetriesOneMore == 3 + 1

CacheTtlMs == 300000
maxRetries == 3

RECURSIVE Pow2(_)
Pow2(n) == IF n = 0 THEN 1 ELSE 2 * Pow2(n - 1)

\* a variant with the exponent off by one
BackoffDelayFromOne(currentRetry) == 1000 * Pow2(currentRetry)

\* 1000 * Math.pow(2, currentRetry + 1)
BackoffDelay(currentRetry) == 1000 * Pow2(currentRetry + 1)

\* the clock values of the model: a few early instants, and the instants at
\* which an entry written at 0 or at 2000 reaches its expiry
TimePoints == {2000 * k : k \in 0..MaxEarlyTicks}
              \cup {CacheTtlMs, CacheTtlMs + 2000}

FailedToLoad == <<"Failed to load events. Please try again.">>

-----------------------------------------------------------------------------
(* Initial state: the component after its first render and the synchronous *)
(* part of its mount effects (the welcome message)                         *)

Init ==
    /\ text = <<>>
    /\ loading = FALSE
    /\ error = <<>>
    /\ availableSlots = <<>>
    /\ calendarEvents = <<>>
    /\ existingEvents = <<>>
    /\ showCalendar = FALSE
    /\ eventDetails = [summary |-> UndefinedText, description |-> UndefinedText,
                       calendarId |-> Undefined]
    /\ selectedSlots = <<>>
    /\ eventsCache = EmptyCache
    /\ fetchingEvents = FALSE
    /\ chatMessages = <<WelcomeMsg>>
    /\ calendars = <<>>
    /\ selectedCalendars = <<>>
    /\ dateRange = InitialRange
    /\ now = 0
    /\ submit = NoCall
    /\ sched = NoCall
    /\ posts = <<>>
    /\ fetches = <<>>
    /\ mounted = FALSE
    /\ popularCommands = <<>>
    /\ effectPending = FALSE
    /\ closure = [showCalendar |-> FALSE, fetchingEvents |-> FALSE,
                  dateRange |-> InitialRange, selectedCalendars |-> <<>>,
                  eventsCache |-> EmptyCache, calendars |-> <<>>, text |-> <<>>]
    /\ prefTimers = <<>>
    /\ prefPosts = <<>>
    /\ itemTimer = NoCall
    /\ modifies = <<>>
    /\ windowEvents = <<>>

-----------------------------------------------------------------------------
(* fetchExistingEvents up to its first await.  The callback reads the      *)
(* state captured by the render that created it; range is the dateRange    *)
(* of that render.                                                         *)

\* a variant that still serves an entry at the instant of its expiry
CacheHitAtExpiry(forceRefresh, cache, key, clock) ==
    /\ ~forceRefresh
    /\ key \in DOMAIN cache
    /\ cache[key].expiry >= clock

CacheHit(forceRefresh, cache, key, clock) ==
    /\ ~forceRefresh
    /\ key \in DOMAIN cache
    /\ cache[key].expiry > clock

FetchCall(startDate, endDate, calendarIds) ==
    [pc |-> "get",
     startDate |-> startDate,
     endDate |-> endDate,
     calendarIds |-> calendarIds,
     cacheKey |-> CacheKey(startDate, endDate, calendarIds),
     retries |-> 0,
     delay |-> 0,
     wakeAt |-> 0,
     calendars |-> calendars]

fetchExistingEvents(forceRefresh, range) ==
    IF fetchingEvents
    THEN UNCHANGED <<fetchingEvents, existingEvents, fetches>>
    ELSE LET startDate == formatDate(range.start)
             endDate == formatDate(range.end)
             calendarIds == CalendarIds(selectedCalendars)
             cacheKey == CacheKey(startDate, endDate, calendarIds)
         IN IF CacheHit(forceRefresh, eventsCache, cacheKey, now)
            THEN /\ existingEvents' = eventsCache[cacheKey].data
                 /\ fetchingEvents' = FALSE
                 /\ fetches' = fetches
            ELSE /\ fetchingEvents' = TRUE
                 /\ fetches' = Append(fetches, FetchCall(startDate, endDate, calendarIds))
                 /\ existingEvents' = existingEvents

\* the effect "fetch existing events when calendar is shown or date range
\* changes": its dependency fetchExistingEvents is a new function after every
\* render, so it runs after every committed render
RunFetchEffect ==
    /\ effectPending
    /\ IF showCalendar
       THEN fetchExistingEvents(FALSE, dateRange)
       ELSE UNCHANGED <<fetchingEvents, existingEvents, fetches>>
    /\ effectPending' = (fetchingEvents' # fetchingEvents \/ existingEvents' # existingEvents)
    /\ UNCHANGED <<text, loading, error, availableSlots, calendarEvents, showCalendar,
                   eventDetails, selectedSlots, eventsCache, chatMessages, calendars,
                   selectedCalendars, dateRange, now, submit, sched, posts, mounted, popularCommands>>
    /\ UNCHANGED <<closure, prefTimers, prefPosts, itemTimer, modifies, windowEvents>>

HandleDatesSet(range) ==
    /\ ~effectPending
    /\ showCalendar
    /\ dateRange' = range
    /\ fetchExistingEvents(FALSE, dateRange)
    /\ effectPending' = TRUE
    /\ UNCHANGED <<text, loading, error, availableSlots, calendarEvents, showCalendar,
                   eventDetails, selectedSlots, eventsCache, chatMessages, calendars,
                   selectedCalendars, now, submit, sched, posts, mounted, popularCommands>>
    /\ UNCHANGED <<closure, prefTimers, prefPosts, itemTimer, modifies, windowEvents>>

HandleRefreshCalendar ==
    /\ ~effectPending
    /\ IF showCalendar
       THEN fetchExistingEvents(FALSE, dateRange)
       ELSE UNCHANGED <<fetchingEvents, existingEvents, fetches>>
    /\ effectPending' = (fetchingEvents' # fetchingEvents \/ existingEvents' # existingEvents)
    /\ UNCHANGED <<text, loading, error, availableSlots, calendarEvents, showCalendar,
                   eventDetails, selectedSlots, eventsCache, chatMessages, calendars,
                   selectedCalendars, dateRange, now, submit, sched, posts, mounted, popularCommands>>
    /\ UNCHANGED <<closure, prefTimers, prefPosts, itemTimer, modifies, windowEvents>>

-----------------------------------------------------------------------------
(* fetchExistingEvents after the await: the retry loop and the response *)

EventsOf(resp) ==
    IF resp.events = <<>> /\ NODE_ENV = "development" THEN MockEvents ELSE resp.events

CacheEntry(data, clock) == [data |-> data, expiry |-> clock + CacheTtlMs]

GetEventsRespond(i, resp) ==
    /\ ~effectPending
    /\ i \in DOMAIN fetches
    /\ fetches[i].pc = "get"
    /\ LET call == fetches[i]
           events == EventsOf(resp)
           eventsWithMetadata == [k \in DOMAIN events |-> WithMetadata(call.calendars, events[k])]
       IN IF resp.success
          THEN IF Len(events) > 0
               THEN /\ eventsCache' = (call.cacheKey :> CacheEntry(eventsWithMetadata, now))
                                      @@ eventsCache
                    /\ existingEvents' = eventsWithMetadata
               ELSE /\ existingEvents' = <<>>
                    /\ eventsCache' = eventsCache
          ELSE UNCHANGED <<eventsCache, existingEvents>>
    /\ fetchingEvents' = FALSE
    /\ fetches' = RemoveAt(fetches, i)
    /\ effectPending' = TRUE
    /\ UNCHANGED <<text, loading, error, availableSlots, calendarEvents, showCalendar,
                   eventDetails, selectedSlots, chatMessages, calendars,
                   selectedCalendars, dateRange, now, submit, sched, posts, mounted, popularCommands>>
    /\ UNCHANGED <<closure, prefTimers, prefPosts, itemTimer, modifies, windowEvents>>

\* a variant without the finally block on the path of the last failure
GetEventsThrowKeepsFetching(i) ==
    /\ ~effectPending
    /\ i \in DOMAIN fetches
    /\ fetches[i].pc = "get"
    /\ LET currentRetry == fetches[i].retries
       IN IF currentRetry = maxRetries - 1
          THEN /\ error' = FailedToLoad
               /\ fetchingEvents' = fetchingEvents
               /\ fetches' = RemoveAt(fetches, i)
               /\ effectPending' = TRUE
          ELSE /\ fetches' = [fetches EXCEPT ![i].pc = "backoff",
                                             ![i].retries = currentRetry + 1,
                                             ![i].delay = BackoffDelay(currentRetry),
                                             ![i].wakeAt = now + BackoffDelay(currentRetry)]
               /\ UNCHANGED <<error, fetchingEvents, effectPending>>
    /\ UNCHANGED <<text, loading, availableSlots, calendarEvents, existingEvents,
                   showCalendar, eventDetails, selectedSlots, eventsCache, chatMessages,
                   calendars, selectedCalendars, dateRange, now, submit, sched, posts,
                   mounted, popularCommands>>
    /\ UNCHANGED <<closure, prefTimers, prefPosts, itemTimer, modifies, windowEvents>>

GetEventsThrow(i) ==
    /\ ~effectPending
    /\ i \in DOMAIN fetches
    /\ fetches[i].pc = "get"
    /\ LET currentRetry == fetches[i].retries
       IN IF currentRetry = maxRetries - 1
          THEN /\ error' = FailedToLoad
               /\ fetchingEvents' = FALSE
               /\ fetches' = RemoveAt(fetches, i)
               /\ effectPending' = TRUE
          ELSE /\ fetches' = [fetches EXCEPT ![i].pc = "backoff",
                                             ![i].retries = currentRetry + 1,
                                             ![i].delay = BackoffDelay(currentRetry),
                                             ![i].wakeAt = now + BackoffDelay(currentRetry)]
               /\ UNCHANGED <<error, fetchingEvents, effectPending>>
    /\ UNCHANGED <<text, loading, availableSlots, calendarEvents, existingEvents,
                   showCalendar, eventDetails, selectedSlots, eventsCache, chatMessages,
                   calendars, selectedCalendars, dateRange, now, submit, sched, posts,
                   mounted, popularCommands>>
    /\ UNCHANGED <<closure, prefTimers, prefPosts, itemTimer, modifies, windowEvents>>

\* the backoff timer fires and the loop issues the next attempt
BackoffDone(i) ==
    /\ ~effectPending
    /\ i \in DOMAIN fetches
    /\ fetches[i].pc = "backoff"
    /\ now >= fetches[i].wakeAt
    /\ fetches[i].retries < maxRetries
    /\ fetches' = [fetches EXCEPT ![i].pc = "get"]
    /\ UNCHANGED <<text, loading, error, availableSlots, calendarEvents, existingEvents,
                   showCalendar, eventDetails, selectedSlots, eventsCache, fetchingEvents,
                   chatMessages, calendars, selectedCalendars, dateRange, now, submit,
                   sched, posts, mounted, popularCommands, effectPending>>
    /\ UNCHANGED <<closure, prefTimers, prefPosts, itemTimer, modifies, windowEvents>>

Tick(t) ==
    /\ ~effectPending
    /\ t \in TimePoints
    /\ t > now
    /\ now' = t
    /\ UNCHANGED <<text, loading, error, availableSlots, calendarEvents, existingEvents,
                   showCalendar, eventDetails, selectedSlots, eventsCache, fetchingEvents,
                   chatMessages, calendars, selectedCalendars, dateRange, submit,
                   sched, posts, fetches, mounted, popularCommands, effectPending>>
    /\ UNCHANGED <<closure, prefTimers, prefPosts, itemTimer, modifies, windowEvents>>

-----------------------------------------------------------------------------
(* Mount effect fetchData and calendar selection *)

FirstMatch(cals, id) ==
    CHOOSE k \in DOMAIN cals :
        cals[k].id = id /\ \A l \in DOMAIN cals : cals[l].id = id => k <= l

\* a variant that keeps the saved preferences as they were saved
SavedPrefsAsSaved(allCalendars, preferredCals) == preferredCals

SyncedPrefs(allCalendars, preferredCals) ==
    [k \in DOMAIN preferredCals |->
        IF \E j \in DOMAIN allCalendars : allCalendars[j].id = preferredCals[k].id
        THEN allCalendars[FirstMatch(allCalendars, preferredCals[k].id)]
        ELSE preferredCals[k]]

\* how the two requests of fetchData can end
FetchOutcomes == {"ok", "calendars_unsuccessful", "prefs_unsuccessful", "network_error"}

\* error.message of the exception fetchData catches
FetchDataFailure(outcome) ==
    CASE outcome = "calendars_unsuccessful" -> <<"Failed to fetch calendars:", "Unknown error">>
      [] outcome = "prefs_unsuccessful" -> <<"Failed to fetch preferred calendars:", "Unknown error">>
      [] OTHER -> <<"Network Error">>

\* allCalendars.find(cal => cal.primary)
PrimaryOf(allCalendars) ==
    allCalendars[CHOOSE k \in DOMAIN allCalendars :
                    /\ allCalendars[k].primary
                    /\ \A l \in DOMAIN allCalendars : allCalendars[l].primary => k <= l]

\* the mount effect, once both of its requests have ended
FetchDataOf(allCalendars, outcome, preferredCals) ==
    /\ ~effectPending
    /\ ~mounted
    /\ mounted' = TRUE
    /\ IF outcome = "ok"
       THEN /\ calendars' = allCalendars
            /\ selectedCalendars' =
                  IF Len(preferredCals) > 0 THEN SyncedPrefs(allCalendars, preferredCals)
                  ELSE IF \E k \in DOMAIN allCalendars : allCalendars[k].primary
                       THEN << PrimaryOf(allCalendars) >>
                       ELSE selectedCalendars
            /\ error' = error
       ELSE /\ error' = <<"Error loading calendars or preferences:">> \o FetchDataFailure(outcome)
            /\ UNCHANGED <<calendars, selectedCalendars>>
    /\ effectPending' = TRUE
    /\ UNCHANGED <<text, loading, availableSlots, calendarEvents, existingEvents,
                   showCalendar, eventDetails, selectedSlots, eventsCache, fetchingEvents,
                   chatMessages, dateRange, now, submit, sched, posts, fetches,
                   popularCommands>>
    /\ UNCHANGED <<closure, prefTimers, prefPosts, itemTimer, modifies, windowEvents>>

FetchData(ok, preferredCals) ==
    FetchDataOf(AllCalendars, IF ok THEN "ok" ELSE "network_error", preferredCals)

ToggleCalendar(prev, cal) ==
    IF \E k \in DOMAIN prev : prev[k].id = cal.id
    THEN SelectSeqBy(prev, [c \in Range(prev) |-> c.id # cal.id])
    ELSE Append(prev, cal)

HandleCalendarSelect(cal) ==
    /\ ~effectPending
    /\ ~loading
    /\ cal \in Range(calendars)
    /\ selectedCalendars' = ToggleCalendar(selectedCalendars, cal)
    /\ eventsCache' = EmptyCache
    /\ effectPending' = TRUE
    /\ UNCHANGED <<text, loading, error, availableSlots, calendarEvents, existingEvents,
                   showCalendar, eventDetails, selectedSlots, fetchingEvents,
                   chatMessages, calendars, dateRange, now, submit, sched, posts,
                   fetches, mounted, popularCommands>>
    /\ UNCHANGED <<closure, prefTimers, prefPosts, itemTimer, modifies, windowEvents>>

-----------------------------------------------------------------------------
(* Text input and handleSubmit *)

SetText(t) ==
    /\ ~effectPending
    /\ ~loading
    /\ t \in Texts
    /\ t # text
    /\ text' = t
    /\ effectPending' = TRUE
    /\ UNCHANGED <<loading, error, availableSlots, calendarEvents, existingEvents,
                   showCalendar, eventDetails, selectedSlots, eventsCache, fetchingEvents,
                   chatMessages, calendars, selectedCalendars, dateRange, now, submit,
                   sched, posts, fetches, mounted, popularCommands>>
    /\ UNCHANGED <<closure, prefTimers, prefPosts, itemTimer, modifies, windowEvents>>

\* trackCommand: count the command in localStorage (texts of the model are lower case)
TrackCommand(commands, commandText) ==
    IF Trim(commandText) = <<>> THEN commands
    ELSE IF \E k \in DOMAIN commands : commands[k].text = commandText
         THEN LET existingIndex ==
                     CHOOSE k \in DOMAIN commands :
                         /\ commands[k].text = commandText
                         /\ \A l \in DOMAIN commands :
                                commands[l].text = commandText => k <= l
              IN [commands EXCEPT ![existingIndex].count = @ + 1]
         ELSE Append(commands, [text |-> commandText, count |-> 1])

\* a variant that only recognises the empty text
IsEmptyText(t) == t = <<>>

\* !text.trim()
IsBlank(t) == Trim(t) = <<>>

\* handleSubmit up to its await, as created by a render whose text is txt
HandleSubmitOf(txt) ==
    IF IsBlank(txt)
    THEN UNCHANGED <<popularCommands, chatMessages, loading, error, availableSlots,
                     calendarEvents, selectedSlots, submit, effectPending>>
    ELSE /\ popularCommands' = TrackCommand(popularCommands, txt)
         /\ chatMessages' = Append(chatMessages, Msg("user", Undefined, txt))
         /\ loading' = TRUE
         /\ error' = <<>>
         /\ availableSlots' = <<>>
         /\ calendarEvents' = <<>>
         /\ selectedSlots' = <<>>
         /\ submit' = [pc |-> "await", text |-> txt]
         /\ effectPending' = TRUE

\* the submit button, which is disabled while loading and on a blank text
HandleSubmit ==
    /\ ~effectPending
    /\ ~loading
    /\ submit = NoCall
    /\ Len(chatMessages) + 3 <= MaxMsgs
    /\ Trim(text) # <<>>
    /\ HandleSubmitOf(text)
    /\ UNCHANGED <<text, existingEvents, showCalendar, eventDetails, eventsCache,
                   fetchingEvents, calendars, selectedCalendars, dateRange, now, sched,
                   posts, fetches, mounted>>
    /\ UNCHANGED <<closure, prefTimers, prefPosts, itemTimer, modifies, windowEvents>>

\* the Enter key in the text area, which is disabled while loading only
HandleSubmitByEnter ==
    /\ ~effectPending
    /\ ~loading
    /\ submit = NoCall
    /\ Len(chatMessages) + 3 <= MaxMsgs
    /\ HandleSubmitOf(text)
    /\ UNCHANGED <<text, existingEvents, showCalendar, eventDetails, eventsCache,
                   fetchingEvents, calendars, selectedCalendars, dateRange, now, sched,
                   posts, fetches, mounted>>
    /\ UNCHANGED <<closure, prefTimers, prefPosts, itemTimer, modifies, windowEvents>>

\* the text handleScheduleItem builds for a break or a named task
ItemText == <<"s">>

\* a 'scheduleCalendarItem' window event reaches the registered listener: it
\* sets the text and arms a 50 ms timer that will call the handleSubmit of the
\* render the listener belongs to.  named is false when the prompt for the
\* task name is cancelled.
HandleScheduleItem(type, named) ==
    /\ ~effectPending
    /\ itemTimer = NoCall
    /\ type \in {"break", "task"}
    /\ IF type = "break" \/ named
       THEN /\ text' = ItemText
            /\ itemTimer' = [pc |-> "armed", text |-> closure.text]
            /\ effectPending' = (text # ItemText)
       ELSE UNCHANGED <<text, itemTimer, effectPending>>
    /\ UNCHANGED <<loading, error, availableSlots, calendarEvents, existingEvents,
                   showCalendar, eventDetails, selectedSlots, eventsCache, fetchingEvents,
                   chatMessages, calendars, selectedCalendars, dateRange, now, submit,
                   sched, posts, fetches, mounted, popularCommands, closure,
                   prefTimers, prefPosts, modifies, windowEvents>>

\* the timer of handleScheduleItem fires (here: while no request is awaited)
ItemTimerFires ==
    /\ ~effectPending
    /\ itemTimer # NoCall
    /\ submit = NoCall
    /\ Len(chatMessages) + 3 <= MaxMsgs
    /\ HandleSubmitOf(itemTimer.text)
    /\ itemTimer' = NoCall
    /\ UNCHANGED <<text, existingEvents, showCalendar, eventDetails, eventsCache,
                   fetchingEvents, calendars, selectedCalendars, dateRange, now, sched,
                   posts, fetches, mounted, closure, prefTimers, prefPosts, modifies,
                   windowEvents>>

HumanizedMsgs(r) ==
    IF Truthy(r.humanizedResponse)
    THEN << Msg("bot", Undefined, r.humanizedResponse) >>
    ELSE <<>>

FindTimeMsgs(r) ==
    IF r.insufficientTime
    THEN << Msg("bot", "error",
                <<"INSUFFICIENT TIME:">> \o Or(r.humanizedResponse, r.message)
                   \o <<"Select these slots or try a different timeframe.">>) >>
    ELSE IF ~Truthy(r.humanizedResponse)
         THEN << Msg("bot", Undefined, <<"Here are suggested time slots on your calendar.">>) >>
         ELSE <<>>

SubmitRespond(r) ==
    /\ ~effectPending
    /\ submit # NoCall
    /\ r \in NLResponses
    /\ LET hr == Truthy(r.humanizedResponse)
           text1 == IF hr /\ r.intent = "check_free_time" THEN <<>> ELSE text
       IN IF r.success
          THEN IF r.intent = "find_time"
               THEN /\ availableSlots' = r.availableSlots
                    /\ calendarEvents' = r.events
                    /\ showCalendar' = TRUE
                    /\ chatMessages' = chatMessages \o HumanizedMsgs(r) \o FindTimeMsgs(r)
                    /\ eventDetails' =
                          [summary |-> Or(r.calendar_title,
                                          getEventSummaryFromText(submit.text)),
                           description |-> submit.text,
                           calendarId |-> IF TruthyStr(r.predicted_calendar)
                                          THEN r.predicted_calendar ELSE "primary"]
                    /\ text' = text1
               ELSE /\ chatMessages' =
                          chatMessages \o HumanizedMsgs(r) \o
                          (IF r.intent = "Create event" /\ ~hr
                           THEN << Msg("bot", "success",
                                       <<"Event created!">> \o
                                       (IF Truthy(r.eventLink)
                                        THEN <<"View it here:">> \o r.eventLink
                                        ELSE <<>>)) >>
                           ELSE <<>>)
                    /\ text' = <<>>
                    /\ UNCHANGED <<availableSlots, calendarEvents, showCalendar, eventDetails>>
          ELSE /\ chatMessages' =
                     Append(chatMessages,
                            Msg("bot", "error",
                                <<"Error:">> \o Or(r.humanizedResponse, r.message)))
               /\ UNCHANGED <<availableSlots, calendarEvents, showCalendar, eventDetails,
                              text>>
    /\ loading' = FALSE
    /\ submit' = NoCall
    /\ effectPending' = TRUE
    /\ UNCHANGED <<error, existingEvents, selectedSlots, eventsCache, fetchingEvents,
                   calendars, selectedCalendars, dateRange, now, sched, posts, fetches,
                   mounted, popularCommands>>
    /\ UNCHANGED <<closure, prefTimers, prefPosts, itemTimer, modifies, windowEvents>>

SubmitThrow ==
    /\ ~effectPending
    /\ submit # NoCall
    /\ chatMessages' = Append(chatMessages, Msg("bot", "error", <<"Error:", "Network Error">>))
    /\ loading' = FALSE
    /\ submit' = NoCall
    /\ effectPending' = TRUE
    /\ UNCHANGED <<text, error, availableSlots, calendarEvents, existingEvents,
                   showCalendar, eventDetails, selectedSlots, eventsCache, fetchingEvents,
                   calendars, selectedCalendars, dateRange, now, sched, posts, fetches,
                   mounted, popularCommands>>
    /\ UNCHANGED <<closure, prefTimers, prefPosts, itemTimer, modifies, windowEvents>>

-----------------------------------------------------------------------------
(* Slot selection *)

\* eventClick on entry i of the list handed to the calendar widget
HandleEventClick(i) ==
    /\ ~effectPending
    /\ showCalendar
    /\ i \in DOMAIN getAllEvents
    /\ IF IsSuggestedSlot(getAllEvents[i])
       THEN /\ selectedSlots' = ToggleSlot(selectedSlots, EventData(getAllEvents[i]))
            /\ effectPending' = TRUE
       ELSE UNCHANGED <<selectedSlots, effectPending>>
    /\ UNCHANGED <<text, loading, error, availableSlots, calendarEvents, existingEvents,
                   showCalendar, eventDetails, eventsCache, fetchingEvents, chatMessages,
                   calendars, selectedCalendars, dateRange, now, submit, sched, posts,
                   fetches, mounted, popularCommands>>
    /\ UNCHANGED <<closure, prefTimers, prefPosts, itemTimer, modifies, windowEvents>>

HandleFindDifferentTimes ==
    /\ ~effectPending
    /\ showCalendar
    /\ ~loading
    /\ Len(chatMessages) < MaxMsgs
    /\ chatMessages' = Append(chatMessages,
          Msg("bot", Undefined, <<"Let's find another time. Please provide more details:">>))
    /\ showCalendar' = FALSE
    /\ availableSlots' = <<>>
    /\ calendarEvents' = <<>>
    /\ selectedSlots' = <<>>
    /\ effectPending' = TRUE
    /\ UNCHANGED <<text, loading, error, existingEvents, eventDetails, eventsCache,
                   fetchingEvents, calendars, selectedCalendars, dateRange, now, submit,
                   sched, posts, fetches, mounted, popularCommands>>
    /\ UNCHANGED <<closure, prefTimers, prefPosts, itemTimer, modifies, windowEvents>>

-----------------------------------------------------------------------------
(* handleScheduleSelected *)

\* a variant that schedules the first selected slot only
SchedulePostsFirstOnly(slots, details) ==
    [k \in {1} |->
        [selectedSlot |-> slots[k], eventDetails |-> details, index |-> k, live |-> TRUE]]

\* one POST /api/schedule-selected-slot per selected slot
SchedulePosts(slots, details) ==
    [k \in DOMAIN slots |->
        [selectedSlot |-> slots[k], eventDetails |-> details, index |-> k, live |-> TRUE]]

\* the "Schedule ... Selected Times" button is rendered with the calendar and
\* is disabled while loading; the handler itself returns on an empty selection
HandleScheduleSelected ==
    /\ ~effectPending
    /\ showCalendar
    /\ ~loading
    /\ Len(chatMessages) < MaxMsgs
    /\ IF Len(selectedSlots) = 0
       THEN UNCHANGED <<loading, posts, sched, effectPending>>
       ELSE /\ loading' = TRUE
            /\ posts' = posts \o SchedulePosts(selectedSlots, eventDetails)
            /\ sched' = [pc |-> "await",
                         selectedSlots |-> selectedSlots,
                         results |-> [k \in DOMAIN selectedSlots |-> "pending"]]
            /\ effectPending' = TRUE
    /\ UNCHANGED <<text, error, availableSlots, calendarEvents, existingEvents,
                   showCalendar, eventDetails, selectedSlots, eventsCache, fetchingEvents,
                   chatMessages, calendars, selectedCalendars, dateRange, now, submit,
                   fetches, mounted, popularCommands>>
    /\ UNCHANGED <<closure, prefTimers, prefPosts, itemTimer, modifies, windowEvents>>

SuccessMsg(n) ==
    Msg("bot", "success", <<"All", ToString(n), "events scheduled successfully!">>)

SomeFailedMsg == Msg("bot", "error", <<"Error:", "Some events could not be scheduled.">>)

\* a variant with results.some in place of results.every
SomeSuccessful(results) == \E k \in DOMAIN results : results[k] = "ok"

\* results.every(r => r.data.success)
AllSuccessful(results) == \A k \in DOMAIN results : results[k] = "ok"

\* a variant that forgets to empty the selection
ScheduleSucceededKeepsSelection(n) ==
    /\ chatMessages' = Append(chatMessages, SuccessMsg(n))
    /\ text' = <<>>
    /\ showCalendar' = FALSE
    /\ availableSlots' = <<>>
    /\ calendarEvents' = <<>>
    /\ selectedSlots' = selectedSlots

\* the branch taken when every request succeeded
ScheduleSucceeded(n) ==
    /\ chatMessages' = Append(chatMessages, SuccessMsg(n))
    /\ text' = <<>>
    /\ showCalendar' = FALSE
    /\ availableSlots' = <<>>
    /\ calendarEvents' = <<>>
    /\ selectedSlots' = <<>>

\* the branch taken when some request answered success = false
ScheduleFailed ==
    /\ chatMessages' = Append(chatMessages, SomeFailedMsg)
    /\ UNCHANGED <<text, showCalendar, availableSlots, calendarEvents, selectedSlots>>

\* the response of request p arrives; when it is the last one Promise.all
\* resolves and the handler runs to its end
ScheduleRespond(p, success) ==
    /\ ~effectPending
    /\ p \in DOMAIN posts
    /\ posts[p].live
    /\ posts' = RemoveAt(posts, p)
    /\ LET results == [sched.results EXCEPT ![posts[p].index] =
                                              IF success THEN "ok" ELSE "failed"]
       IN IF \E k \in DOMAIN results : results[k] = "pending"
          THEN /\ sched' = [sched EXCEPT !.results = results]
               /\ UNCHANGED <<chatMessages, text, showCalendar, availableSlots,
                              calendarEvents, selectedSlots, loading, effectPending>>
          ELSE /\ sched' = NoCall
               /\ loading' = FALSE
               /\ effectPending' = TRUE
               /\ IF AllSuccessful(results)
                  THEN ScheduleSucceeded(Len(sched.selectedSlots))
                  ELSE ScheduleFailed
    /\ UNCHANGED <<error, existingEvents, eventDetails, eventsCache, fetchingEvents,
                   calendars, selectedCalendars, dateRange, now, submit, fetches,
                   mounted, popularCommands>>
    /\ UNCHANGED <<closure, prefTimers, prefPosts, itemTimer, modifies, windowEvents>>

\* request p fails: Promise.all rejects at once, the other requests stay in
\* flight and their answers are ignored
ScheduleThrow(p) ==
    /\ ~effectPending
    /\ p \in DOMAIN posts
    /\ posts[p].live
    /\ posts' = [k \in DOMAIN RemoveAt(posts, p) |->
                    [RemoveAt(posts, p)[k] EXCEPT !.live = FALSE]]
    /\ sched' = NoCall
    /\ chatMessages' = Append(chatMessages, Msg("bot", "error", <<"Error:", "Network Error">>))
    /\ loading' = FALSE
    /\ effectPending' = TRUE
    /\ UNCHANGED <<text, error, availableSlots, calendarEvents, existingEvents,
                   showCalendar, eventDetails, selectedSlots, eventsCache, fetchingEvents,
                   calendars, selectedCalendars, dateRange, now, submit, fetches,
                   mounted, popularCommands>>
    /\ UNCHANGED <<closure, prefTimers, prefPosts, itemTimer, modifies, windowEvents>>

\* the answer to a request whose Promise.all has already been rejected
IgnoredRespond(p) ==
    /\ ~effectPending
    /\ p \in DOMAIN posts
    /\ ~posts[p].live
    /\ posts' = RemoveAt(posts, p)
    /\ UNCHANGED <<text, loading, error, availableSlots, calendarEvents, existingEvents,
                   showCalendar, eventDetails, selectedSlots, eventsCache, fetchingEvents,
                   chatMessages, calendars, selectedCalendars, dateRange, now, submit,
                   sched, fetches, mounted, popularCommands, effectPending>>
    /\ UNCHANGED <<closure, prefTimers, prefPosts, itemTimer, modifies, windowEvents>>

-----------------------------------------------------------------------------
(* The effects of a render, the window listeners and the saving of the     *)
(* calendar preferences                                                    *)

MaxFetches == 2     \* fetchExistingEvents invocations in progress at once
MaxPrefPosts == 3   \* set-preferred-calendars timers armed and requests issued

PrefsDebounceMs == 500

\* what the functions created by the current render see
CurrentClosure ==
    [showCalendar |-> showCalendar, fetchingEvents |-> fetchingEvents,
     dateRange |-> dateRange, selectedCalendars |-> selectedCalendars,
     eventsCache |-> eventsCache, calendars |-> calendars, text |-> text]

\* fetchExistingEvents up to its first await, called through the function
\* instance of the render that saw c
fetchExistingEventsIn(c, forceRefresh) ==
    IF c.fetchingEvents
    THEN UNCHANGED <<fetchingEvents, existingEvents, fetches>>
    ELSE LET startDate == formatDate(c.dateRange.start)
             endDate == formatDate(c.dateRange.end)
             calendarIds == CalendarIds(c.selectedCalendars)
             cacheKey == CacheKey(startDate, endDate, calendarIds)
         IN IF CacheHit(forceRefresh, c.eventsCache, cacheKey, now)
            THEN /\ existingEvents' = c.eventsCache[cacheKey].data
                 /\ fetchingEvents' = FALSE
                 /\ fetches' = fetches
            ELSE /\ fetchingEvents' = TRUE
                 /\ fetches' = Append(fetches,
                                      [FetchCall(startDate, endDate, calendarIds)
                                         EXCEPT !.calendars = c.calendars])
                 /\ existingEvents' = existingEvents

\* the effect on [selectedCalendars]: it runs when selectedCalendars is another
\* array than at the previous run, arms a timer when the selection is not
\* empty, and returns no cleanup (sendPreferences is async: the function it
\* returns is the value of a promise nobody reads)
SendPreferencesEffect(previous) ==
    IF selectedCalendars # previous /\ Len(selectedCalendars) > 0
    THEN prefTimers' = Append(prefTimers, [calendars |-> selectedCalendars,
                                           fireAt |-> now + PrefsDebounceMs])
    ELSE prefTimers' = prefTimers

\* the effects of the committed render, in the order of their declaration:
\* the window listeners are registered again, the events are fetched when the
\* calendar is shown, the preferences are scheduled for saving
RunEffects ==
    /\ effectPending
    /\ closure' = CurrentClosure
    /\ IF showCalendar
       THEN fetchExistingEventsIn(CurrentClosure, FALSE)
       ELSE UNCHANGED <<fetchingEvents, existingEvents, fetches>>
    /\ SendPreferencesEffect(closure.selectedCalendars)
    /\ effectPending' = (fetchingEvents' # fetchingEvents \/ existingEvents' # existingEvents)
    /\ UNCHANGED <<text, loading, error, availableSlots, calendarEvents, showCalendar,
                   eventDetails, selectedSlots, eventsCache, chatMessages, calendars,
                   selectedCalendars, dateRange, now, submit, sched, posts, mounted,
                   popularCommands, prefPosts, itemTimer, modifies, windowEvents>>

\* a 'refreshCalendar' window event reaches the listener that is registered:
\* the handleRefreshCalendar of the last render whose effects have run
RegisteredRefreshListener ==
    /\ IF closure.showCalendar
       THEN fetchExistingEventsIn(closure, FALSE)
       ELSE UNCHANGED <<fetchingEvents, existingEvents, fetches>>
    /\ effectPending' = (\/ effectPending
                         \/ fetchingEvents' # fetchingEvents
                         \/ existingEvents' # existingEvents)

RefreshCalendarEvent ==
    /\ Len(fetches) < MaxFetches
    /\ RegisteredRefreshListener
    /\ UNCHANGED <<text, loading, error, availableSlots, calendarEvents, showCalendar,
                   eventDetails, selectedSlots, eventsCache, chatMessages, calendars,
                   selectedCalendars, dateRange, now, submit, sched, posts, mounted,
                   popularCommands, closure, prefTimers, prefPosts, itemTimer,
                   modifies, windowEvents>>

\* timer k of the sendPreferences effect fires and posts the selection it was
\* armed with; the answer changes no state.  The timers have the same delay,
\* so they fire in the order in which they were armed.
PrefTimerFires(k) ==
    /\ ~effectPending
    /\ k \in DOMAIN prefTimers
    /\ k = 1
    /\ now >= prefTimers[k].fireAt
    /\ prefPosts' = Append(prefPosts, prefTimers[k].calendars)
    /\ prefTimers' = RemoveAt(prefTimers, k)
    /\ UNCHANGED <<text, loading, error, availableSlots, calendarEvents, existingEvents,
                   showCalendar, eventDetails, selectedSlots, eventsCache, fetchingEvents,
                   chatMessages, calendars, selectedCalendars, dateRange, now, submit,
                   sched, posts, fetches, mounted, popularCommands, effectPending,
                   closure, itemTimer, modifies, windowEvents>>

-----------------------------------------------------------------------------
(* The calendar helper functions window.selectEventToModify and            *)
(* window.rescheduleEvent: one POST to /api/modify-selected-event, whose   *)
(* settlement dispatches window events.                                     *)

MaxModifyCalls == 2   \* calls of the two helper functions made

ModifyFunctions == {"selectEventToModify", "rescheduleEvent"}

\* how the request settles: a JSON body with success true, false or absent
\* (the JSON value is written as a string), the JSON body null, a body that
\* is not JSON, or a rejected fetch
ModifyOutcomes ==
    { [kind |-> "json", success |-> "true"],
      [kind |-> "json", success |-> "false"],
      [kind |-> "json", success |-> Undefined],
      [kind |-> "json_null", success |-> Undefined],
      [kind |-> "parse_error", success |-> Undefined],
      [kind |-> "network_error", success |-> Undefined] }

IsEventModified(e) == e.type = "eventModified"

ModifyCallsMade ==
    Len(modifies) + Cardinality({k \in DOMAIN windowEvents : IsEventModified(windowEvents[k])})

\* the call up to fetch(...): the request is in flight.  rescheduleEvent
\* always asks for a "reschedule" and sends the calendar "primary" when it
\* is given none.
ModifyCall(fn, eventId, calendarId, modificationType) ==
    /\ ModifyCallsMade < MaxModifyCalls
    /\ fn \in ModifyFunctions
    /\ modifies' = Append(modifies,
           [call |-> ModifyCallsMade + 1,
            fn |-> fn,
            eventId |-> eventId,
            calendarId |-> calendarId,
            modificationType |-> IF fn = "rescheduleEvent" THEN "reschedule"
                                 ELSE modificationType,
            body |-> [eventId |-> eventId,
                      calendarId |-> IF fn = "rescheduleEvent" /\ ~TruthyStr(calendarId)
                                     THEN "primary" ELSE calendarId,
                      modificationType |-> IF fn = "rescheduleEvent" THEN "reschedule"
                                           ELSE modificationType]])
    /\ UNCHANGED <<text, loading, error, availableSlots, calendarEvents, existingEvents,
                   showCalendar, eventDetails, selectedSlots, eventsCache, fetchingEvents,
                   chatMessages, calendars, selectedCalendars, dateRange, now, submit,
                   sched, posts, fetches, mounted, popularCommands, effectPending,
                   closure, prefTimers, prefPosts, itemTimer, windowEvents>>

\* the CustomEvent 'eventModified' and the Event 'refreshCalendar'; call is
\* the invocation that dispatched the event
EventModifiedOk(m) ==
    [type |-> "eventModified", call |-> m.call, success |-> TRUE,
     eventId |-> m.eventId, calendarId |-> m.calendarId,
     modificationType |-> m.modificationType, message |-> "data.message"]

EventModifiedFailed(m, message) ==
    [type |-> "eventModified", call |-> m.call, success |-> FALSE,
     eventId |-> Undefined, calendarId |-> Undefined,
     modificationType |-> Undefined, message |-> message]

RefreshCalendar(m) == [type |-> "refreshCalendar", call |-> m.call]

\* a variant that refreshes the calendar after every answer of the backend
ModifyDispatchesRefreshAlways(m, outcome) ==
    IF outcome.kind = "json"
    THEN IF outcome.success = "true"
         THEN <<EventModifiedOk(m), RefreshCalendar(m)>>
         ELSE <<EventModifiedFailed(m, "data.message"), RefreshCalendar(m)>>
    ELSE <<EventModifiedFailed(m, "Failed to communicate with the server")>>

\* the events dispatched when the request of invocation m settles: the second
\* then callback runs for a JSON body and throws on data.success when the
\* body is null; the catch callback handles that, a body that is not JSON and
\* a rejected fetch
ModifyDispatches(m, outcome) ==
    IF outcome.kind = "json"
    THEN IF outcome.success = "true"
         THEN <<EventModifiedOk(m), RefreshCalendar(m)>>
         ELSE <<EventModifiedFailed(m, "data.message")>>
    ELSE <<EventModifiedFailed(m, "Failed to communicate with the server")>>

\* the request of invocation i settles; dispatchEvent runs the registered
\* listeners before it returns, so the refreshCalendar listener of the form
\* is part of the step
ModifySettles(i, outcome) ==
    /\ i \in DOMAIN modifies
    /\ LET dispatched == ModifyDispatches(modifies[i], outcome)
       IN /\ windowEvents' = windowEvents \o dispatched
          /\ IF \E k \in DOMAIN dispatched : dispatched[k].type = "refreshCalendar"
             THEN RegisteredRefreshListener
             ELSE UNCHANGED <<fetchingEvents, existingEvents, fetches, effectPending>>
    /\ modifies' = RemoveAt(modifies, i)
    /\ UNCHANGED <<text, loading, error, availableSlots, calendarEvents, showCalendar,
                   eventDetails, selectedSlots, eventsCache, chatMessages, calendars,
                   selectedCalendars, dateRange, now, submit, sched, posts, mounted,
                   popularCommands, closure, prefTimers, prefPosts, itemTimer>>

ModifySettled == \E i \in DOMAIN modifies, outcome \in ModifyOutcomes : ModifySettles(i, outcome)

-----------------------------------------------------------------------------
(* Specification *)

\* The user selects and schedules suggested slots; the calendar's events are
\* fetched by the effect.  The clock stands still, the visible range and the
\* calendar selection stay as loaded, and get-events requests are answered.
SelectionAnswers ==
    { r \in NLResponses :
        /\ r.humanizedResponse = HumanText
        /\ r.calendar_title = UndefinedText
        /\ ~r.insufficientTime
        /\ \/ r.success /\ r.intent = "find_time"
           \/ r.events = <<>> /\ r.intent = "view_events" }

NextSelection ==
    \/ FetchData(TRUE, <<>>)
    \/ SetText(<<"a", ".", "b">>)
    \/ HandleSubmit
    \/ \E r \in SelectionAnswers : SubmitRespond(r)
    \/ SubmitThrow
    \/ \E i \in 1..(Len(existingEvents) + Len(calendarEvents)) : HandleEventClick(i)
    \/ HandleFindDifferentTimes
    \/ HandleScheduleSelected
    \/ \E p \in DOMAIN posts, success \in BOOLEAN : ScheduleRespond(p, success)
    \/ \E p \in DOMAIN posts : ScheduleThrow(p)
    \/ \E p \in DOMAIN posts : IgnoredRespond(p)
    \/ RunFetchEffect
    \/ \E i \in DOMAIN fetches, resp \in GetEventsResponses : GetEventsRespond(i, resp)

SpecSelection == Init /\ [][NextSelection]_vars

\* The calendar is brought up by one find_time query and then browsed: the
\* user changes the visible range and the calendar selection, the clock
\* advances, and get-events requests are answered or fail.
FindTimeAnswer ==
    [success |-> TRUE, intent |-> "find_time", humanizedResponse |-> HumanText,
     message |-> BackendMessage, events |-> <<E1, E2>>,
     availableSlots |-> <<E1, E2>>, insufficientTime |-> FALSE,
     calendar_title |-> CalendarTitle, predicted_calendar |-> Undefined,
     eventLink |-> UndefinedText]

NextFetch ==
    \/ FetchData(TRUE, <<>>)
    \/ \E cal \in Range(AllCalendars) : HandleCalendarSelect(cal)
    \/ SetText(<<"a", ".", "b">>)
    \/ HandleSubmit
    \/ SubmitRespond(FindTimeAnswer)
    \/ RunFetchEffect
    \/ \E range \in DateRanges : HandleDatesSet(range)
    \/ HandleRefreshCalendar
    \/ \E i \in DOMAIN fetches, resp \in GetEventsResponses : GetEventsRespond(i, resp)
    \/ \E i \in DOMAIN fetches : GetEventsThrow(i)
    \/ \E i \in DOMAIN fetches : BackoffDone(i)
    \/ \E t \in TimePoints : Tick(t)

SpecFetch == Init /\ [][NextFetch]_vars

\* The component mounts and nobody touches it: the mount effect loads the
\* calendars and the saved preferences, the effects run and the timers fire.
NextMount ==
    \/ \E l \in CalendarLists, o \in FetchOutcomes, p \in SavedPrefLists : FetchDataOf(l, o, p)
    \/ RunEffects
    \/ \E k \in DOMAIN prefTimers : PrefTimerFires(k)
    \/ \E t \in TimePoints : Tick(t)

SpecMount == Init /\ [][NextMount]_vars

\* The user ticks and unticks calendars in the settings panel; at most
\* MaxPrefPosts timers are armed in a behaviour.
NextPrefs ==
    \/ \E p \in PrefLists : FetchData(TRUE, p)
    \/ \E cal \in Range(AllCalendars) :
          /\ Len(prefTimers) + Len(prefPosts) < MaxPrefPosts
          /\ HandleCalendarSelect(cal)
    \/ RunEffects
    \/ \E k \in DOMAIN prefTimers : PrefTimerFires(k)
    \/ \E t \in TimePoints : Tick(t)

SpecPrefs == Init /\ [][NextPrefs]_vars

\* The user types, submits with the button or the Enter key, or a calendar
\* item is scheduled through the window event; the backend answers in every
\* shape or the request fails.
NextSubmit ==
    \/ \E t \in Texts : SetText(t)
    \/ HandleSubmit
    \/ HandleSubmitByEnter
    \/ \E type \in {"break", "task"}, named \in BOOLEAN : HandleScheduleItem(type, named)
    \/ ItemTimerFires
    \/ \E r \in NLResponses : SubmitRespond(r)
    \/ SubmitThrow
    \/ RunEffects

SpecSubmit == Init /\ [][NextSubmit]_vars

\* The calendar is shown and browsed while 'refreshCalendar' events arrive
\* from the page at any moment, also between a state change and the run of
\* the effects that registers the listeners of the new render.
NextRefresh ==
    \/ FetchData(TRUE, <<>>)
    \/ SetText(<<"a", ".", "b">>)
    \/ HandleSubmit
    \/ SubmitRespond(FindTimeAnswer)
    \/ RunEffects
    \/ RefreshCalendarEvent
    \/ \E range \in DateRanges : HandleDatesSet(range)
    \/ \E i \in DOMAIN fetches, resp \in GetEventsResponses : GetEventsRespond(i, resp)

SpecRefresh == Init /\ [][NextRefresh]_vars

\* The calendar is shown with the visible range and the calendar selection
\* left as they are.  The effects of a render run, every request is answered
\* or fails, the backoff timers fire and the clock advances.  A request
\* fails only while the clock of the model can still reach the end of the
\* wait that follows.
LastTimePoint == CacheTtlMs + 2000

CanWaitAfter(i) ==
    \/ fetches[i].retries = maxRetries - 1
    \/ now + BackoffDelay(fetches[i].retries) <= LastTimePoint

GetEventsAnswered ==
    \/ \E i \in DOMAIN fetches, resp \in GetEventsResponses : GetEventsRespond(i, resp)
    \/ \E i \in DOMAIN fetches : CanWaitAfter(i) /\ GetEventsThrow(i)

NextShown ==
    \/ FetchData(TRUE, <<>>)
    \/ SetText(<<"a", ".", "b">>)
    \/ HandleSubmit
    \/ SubmitRespond(FindTimeAnswer)
    \/ RunFetchEffect
    \/ GetEventsAnswered
    \/ \E i \in DOMAIN fetches : BackoffDone(i)
    \/ \E t \in TimePoints : Tick(t)

SpecShown ==
    /\ Init
    /\ [][NextShown]_vars
    /\ WF_vars(RunFetchEffect)
    /\ WF_vars(GetEventsAnswered)
    /\ WF_vars(\E i \in DOMAIN fetches : BackoffDone(i))
    /\ WF_vars(\E t \in TimePoints : Tick(t))

\* The helper functions are called while the form shows or hides the
\* calendar; every request to modify an event settles.
NextModify ==
    \/ SetText(<<"a", ".", "b">>)
    \/ HandleSubmit
    \/ SubmitRespond(FindTimeAnswer)
    \/ RunEffects
    \/ \E i \in DOMAIN fetches, resp \in GetEventsResponses : GetEventsRespond(i, resp)
    \/ \E fn \in ModifyFunctions, calendarId \in {"a", Undefined} :
           ModifyCall(fn, "e1", calendarId, "delete")
    \/ ModifySettled

SpecModify == Init /\ [][NextModify]_vars /\ WF_vars(ModifySettled)

-----------------------------------------------------------------------------
(* Properties of getAllEvents *)

LastMsg == chatMessages[Len(chatMessages)]

\* C1: the list returned by getAllEvents is the existing events, in their
\* order and unmodified, followed by one entry per suggested slot of
\* calendarEvents, in order; its length is |existingEvents| + |calendarEvents|
\* and every appended entry carries suggestedSlot = true.
C1_AllEventsIsExistingThenSuggested ==
    LET n == Len(existingEvents)
        m == Len(calendarEvents)
    IN /\ Len(getAllEvents) = n + m
       /\ \A i \in 1..n : getAllEvents[i] = existingEvents[i]
       /\ \A j \in 1..m :
             /\ getAllEvents[n + j].start = calendarEvents[j].start
             /\ getAllEvents[n + j].end = calendarEvents[j].end
             /\ getAllEvents[n + j].extendedProps.suggestedSlot = TRUE

\* existing events and suggested slots (one of them twice) are shown together
C1_Witness ==
    /\ showCalendar
    /\ Len(existingEvents) = 2
    /\ calendarEvents = <<E1, E3, E1>>
    /\ selectedSlots # <<>>

\* C2: a suggested slot of the list is rendered as selected (title, background
\* and border) exactly when selectedSlots holds an entry with the same start
\* and the same end, and as suggested otherwise; the existing events of the
\* list keep their own title and colours whatever is selected.
C2_SelectedIffInSelectedSlots ==
    LET n == Len(existingEvents)
    IN /\ \A j \in DOMAIN calendarEvents :
             LET entry == getAllEvents[n + j]
                 selected == \E s \in Range(selectedSlots) :
                                 /\ s.start = calendarEvents[j].start
                                 /\ s.end = calendarEvents[j].end
             IN IF selected
                THEN /\ entry.title = "Selected Time"
                     /\ entry.backgroundColor = <<76, 175, 80>>
                     /\ entry.borderColor = <<46, 125, 50>>
                ELSE /\ entry.title = "Suggested Time"
                     /\ entry.backgroundColor = <<139, 195, 74>>
                     /\ entry.borderColor = <<104, 159, 56>>
       /\ \A i \in 1..n :
             /\ getAllEvents[i].title = existingEvents[i].title
             /\ getAllEvents[i].backgroundColor = existingEvents[i].backgroundColor
             /\ getAllEvents[i].borderColor = existingEvents[i].borderColor

\* after clicks, one suggested slot is shown as selected next to one that is
\* not, and an existing event with the times of the selected slot is present
C2_Witness ==
    /\ showCalendar
    /\ calendarEvents = <<E1, E2>>
    /\ [start |-> Iso(0), end |-> Iso(2)] \in Range(selectedSlots)
    /\ [start |-> Iso(0), end |-> Iso(1)] \in Range(selectedSlots)
    /\ Len(existingEvents) = 2
    /\ existingEvents[1].start = E1.start /\ existingEvents[1].end = E1.end
    /\ getAllEvents[3].title = "Selected Time"
    /\ getAllEvents[4].title = "Suggested Time"

-----------------------------------------------------------------------------
(* Properties of handleEventClick *)

ClickedSlot(i) == [start |-> [t |-> getAllEvents[i].start.t, fmt |-> "iso"],
                   end |-> [t |-> getAllEvents[i].end.t, fmt |-> "iso"]]

Without(seq, x) == SelectSeq(seq, LAMBDA s : s # x)

\* what one click on entry i does to selectedSlots
ClickToggles(i) ==
    LET d == ClickedSlot(i)
    IN IF getAllEvents[i].extendedProps.suggestedSlot
       THEN IF d \in Range(selectedSlots)
            THEN selectedSlots' = Without(selectedSlots, d)
            ELSE selectedSlots' = Append(selectedSlots, d)
       ELSE selectedSlots' = selectedSlots

ClickStepsToggle ==
    [][\A i \in 1..(Len(existingEvents) + Len(calendarEvents)) :
          HandleEventClick(i) =>
             IF i > Len(existingEvents) THEN ClickToggles(i)
             ELSE UNCHANGED vars]_vars

\* the selection after clicking entry i twice
AfterTwoClicks(i) == ToggleSlot(ToggleSlot(selectedSlots, EventData(getAllEvents[i])),
                                EventData(getAllEvents[i]))

\* C3, in the wording of the specification: clicking the same suggested slot
\* twice restores selectedSlots.
C3_TwoClicksRestoreSelection ==
    showCalendar =>
       \A i \in DOMAIN getAllEvents :
          IsSuggestedSlot(getAllEvents[i]) => AfterTwoClicks(i) = selectedSlots

\* two clicks restore the set of selected slots; the sequence is restored when
\* the slot was not selected before, otherwise the slot has moved to the end
TwoClicksRestoreTheSet ==
    showCalendar =>
       \A i \in DOMAIN getAllEvents :
          IsSuggestedSlot(getAllEvents[i]) =>
             /\ Range(AfterTwoClicks(i)) = Range(selectedSlots)
             /\ Len(AfterTwoClicks(i)) = Len(selectedSlots)
             /\ ClickedSlot(i) \notin Range(selectedSlots)
                   => AfterTwoClicks(i) = selectedSlots
             /\ ClickedSlot(i) \in Range(selectedSlots)
                   => AfterTwoClicks(i) =
                         Append(Without(selectedSlots, ClickedSlot(i)), ClickedSlot(i))

\* C3: a click on a suggested slot appends it when no entry with its
\* (start, end) is selected and removes every such entry otherwise, the other
\* entries keeping their presence and order; a click on another event leaves
\* selectedSlots unchanged; two clicks on the same slot restore the set of
\* selected slots, and their order too unless the slot was selected and not last.
C3_ClickTogglesSlot == ClickStepsToggle /\ []TwoClicksRestoreTheSet

\* two slots are selected, so a click can remove a slot that is not the last
C3_Witness ==
    /\ showCalendar
    /\ Len(selectedSlots) >= 2
    /\ Len(existingEvents) > 0

-----------------------------------------------------------------------------
(* Properties of handleScheduleSelected *)

\* C4: handleScheduleSelected issues one schedule-selected-slot POST for each
\* entry of selectedSlots, in order, each carrying that slot and the current
\* eventDetails; with an empty selection it issues nothing and changes no
\* state.  No other step issues such a request.
C4_OnePostPerSelectedSlot ==
    [][/\ HandleScheduleSelected =>
             IF selectedSlots = <<>>
             THEN UNCHANGED vars
             ELSE /\ Len(posts') = Len(posts) + Len(selectedSlots)
                  /\ \A k \in DOMAIN posts : posts'[k] = posts[k]
                  /\ \A k \in DOMAIN selectedSlots :
                        /\ posts'[Len(posts) + k].selectedSlot = selectedSlots[k]
                        /\ posts'[Len(posts) + k].eventDetails = eventDetails
                  /\ loading'
       /\ Len(posts') > Len(posts) => HandleScheduleSelected]_vars

\* a bulk request for two slots has just been issued
C4_Witness ==
    /\ sched # NoCall
    /\ Len(sched.selectedSlots) = 2
    /\ Len(posts) = 2
    /\ \A k \in DOMAIN posts : posts[k].live /\ posts[k].eventDetails = eventDetails
    /\ loading

\* the step in which the last response of a bulk request arrives
LastResponse(p, success) ==
    /\ ScheduleRespond(p, success)
    /\ \A k \in DOMAIN sched.results : k # posts[p].index => sched.results[k] # "pending"

OthersSucceeded(p) ==
    \A k \in DOMAIN sched.results : k # posts[p].index => sched.results[k] = "ok"

\* C5: when every response of a bulk request reports success the handler hides
\* the calendar, empties selectedSlots, calendarEvents and availableSlots,
\* clears the text, appends one success message naming the number of slots
\* of the request, and ends with loading = false.
C5_AllSucceededClearsCalendar ==
    [][\A p \in DOMAIN posts :
          LastResponse(p, TRUE) /\ OthersSucceeded(p) =>
             /\ showCalendar' = FALSE
             /\ selectedSlots' = <<>>
             /\ calendarEvents' = <<>>
             /\ availableSlots' = <<>>
             /\ text' = <<>>
             /\ chatMessages' =
                   Append(chatMessages,
                          [sender |-> "bot", type |-> "success",
                           content |-> <<"All", ToString(Cardinality(DOMAIN sched.results)),
                                         "events scheduled successfully!">>])
             /\ loading' = FALSE]_vars

\* a bulk request of two slots has succeeded
C5_Witness ==
    /\ LastMsg.type = "success"
    /\ LastMsg.content[2] = "2"
    /\ ~showCalendar
    /\ ~loading
    /\ sched = NoCall

UnchangedByFailure ==
    /\ UNCHANGED <<showCalendar, selectedSlots, calendarEvents, availableSlots, text>>
    /\ Len(chatMessages') = Len(chatMessages) + 1
    /\ SubSeq(chatMessages', 1, Len(chatMessages)) = chatMessages
    /\ chatMessages'[Len(chatMessages')].sender = "bot"
    /\ chatMessages'[Len(chatMessages')].type = "error"
    /\ loading' = FALSE

\* C6: when a bulk request fails (a response with success = false, or a
\* request that throws) the handler leaves showCalendar, selectedSlots,
\* calendarEvents, availableSlots and the text unchanged, appends one error
\* message and resets loading to false.
C6_FailureKeepsSelection ==
    [][\A p \in DOMAIN posts :
          /\ \A success \in BOOLEAN :
                LastResponse(p, success) /\ ~(success /\ OthersSucceeded(p))
                   => UnchangedByFailure
          /\ ScheduleThrow(p) => UnchangedByFailure]_vars

\* a bulk request has failed and the selection is still there
C6_Witness ==
    /\ LastMsg.type = "error"
    /\ sched = NoCall
    /\ ~loading
    /\ showCalendar
    /\ Len(selectedSlots) = 2
    /\ text # <<>>

-----------------------------------------------------------------------------
(* Properties of the events cache *)

\* the key a call of fetchExistingEvents made in this state computes
CurrentKey == CacheKey(formatDate(dateRange.start), formatDate(dateRange.end),
                       CalendarIds(selectedCalendars))

\* the parts of a cache key
KeyStart(key) == key[1]
KeyEnd(key) == key[3]
KeyIds(key) == Range(SubSeq(key, 5, Len(key))) \ {","}

\* C7: the entry a call of fetchExistingEvents made now resolves to is the
\* entry that was written for the same formatted start date, the same
\* formatted end date and the same set of selected calendar ids: an entry of
\* the cache has the key of the current call exactly when it agrees with the
\* current call on these three.
C7_KeyIsDatesAndCalendarSet ==
    \A key \in DOMAIN eventsCache :
       key = CurrentKey
          <=> /\ KeyStart(key) = formatDate(dateRange.start)
              /\ KeyEnd(key) = formatDate(dateRange.end)
              /\ KeyIds(key) = {selectedCalendars[k].id : k \in DOMAIN selectedCalendars}

\* a step in which fetchExistingEvents is called and gets past its guard
FetchIsCalled ==
    /\ ~fetchingEvents
    /\ \/ RunFetchEffect /\ showCalendar
       \/ HandleRefreshCalendar /\ showCalendar
       \/ \E range \in DateRanges : HandleDatesSet(range)

\* C8: a call of fetchExistingEvents (forceRefresh is false at every call site)
\* that is not dropped by its fetchingEvents guard serves existingEvents from
\* the cache, without a request and without touching the entry, exactly when
\* the cache holds an entry for its key whose expiry is strictly later than
\* the clock; otherwise it issues a get-events request and serves nothing.
\* Every entry written or replaced gets expiry = clock + 5 minutes.
C8_ServedFromCacheIffFresh ==
    [][/\ FetchIsCalled =>
             IF CurrentKey \in DOMAIN eventsCache /\ eventsCache[CurrentKey].expiry > now
             THEN /\ existingEvents' = eventsCache[CurrentKey].data
                  /\ fetches' = fetches
                  /\ eventsCache' = eventsCache
                  /\ fetchingEvents' = FALSE
             ELSE /\ Len(fetches') = Len(fetches) + 1
                  /\ fetches'[Len(fetches')].pc = "get"
                  /\ fetches'[Len(fetches')].cacheKey = CurrentKey
                  /\ existingEvents' = existingEvents
                  /\ eventsCache' = eventsCache
       /\ \A k \in DOMAIN eventsCache' :
             (k \notin DOMAIN eventsCache \/ eventsCache'[k] # eventsCache[k])
                => eventsCache'[k].expiry = now + 5 * 60 * 1000]_vars

\* a request is in flight for a key whose entry expires at this very instant
C8_Witness ==
    \E i \in DOMAIN fetches :
       /\ fetches[i].pc = "get"
       /\ fetches[i].cacheKey \in DOMAIN eventsCache
       /\ eventsCache[fetches[i].cacheKey].expiry = now

-----------------------------------------------------------------------------
(* Properties of the retry loop *)

C10_ExponentialBackoff ==
    /\ [][\A i \in DOMAIN fetches :
             /\ GetEventsThrow(i) =>
                   CASE fetches[i].retries = 0 ->
                           /\ fetches'[i].pc = "backoff"
                           /\ fetches'[i].delay = 2000
                           /\ fetches'[i].wakeAt = now + 2000
                     [] fetches[i].retries = 1 ->
                           /\ fetches'[i].pc = "backoff"
                           /\ fetches'[i].delay = 4000
                           /\ fetches'[i].delay > fetches[i].delay
                           /\ fetches'[i].wakeAt = now + 4000
                     [] OTHER ->
                           /\ Len(fetches') = Len(fetches) - 1
                           /\ error' = FailedToLoad
             /\ (i \in DOMAIN fetches' /\ fetches[i].pc = "backoff"
                   /\ fetches'[i].pc = "get")
                   => now >= fetches[i].wakeAt]_vars
    /\ [](\A i \in DOMAIN fetches :
             fetches[i].pc = "backoff" =>
                \/ fetches[i].retries = 1 /\ fetches[i].delay = 2000
                \/ fetches[i].retries = 2 /\ fetches[i].delay = 4000)

\* the loop is in its second wait and the timer has not fired yet
C10_Witness ==
    \E i \in DOMAIN fetches :
       /\ fetches[i].pc = "backoff"
       /\ fetches[i].delay = 4000
       /\ now < fetches[i].wakeAt

-----------------------------------------------------------------------------
(* Properties of the mount effect and of the saving of preferences *)

\* the calendar of the list with the id of pref, or pref when there is none
Synced(list, pref) ==
    IF \E j \in DOMAIN list : list[j].id = pref.id
    THEN list[CHOOSE j \in DOMAIN list :
                 list[j].id = pref.id /\ \A l \in 1..(j - 1) : list[l].id # pref.id]
    ELSE pref

\* C11: when both requests of the mount effect succeed, selectedCalendars
\* becomes the saved preferences in their order, each replaced by the calendar
\* of the same id from the full list when there is one; with no saved
\* preferences it becomes exactly the primary calendar of the list, and stays
\* empty when the list has none.  When a request fails or reports
\* success = false, calendars and selectedCalendars are unchanged and an
\* error is set.
C11_MountSelectsPreferencesOrPrimary ==
    [][\A l \in CalendarLists, o \in FetchOutcomes, p \in SavedPrefLists :
          FetchDataOf(l, o, p) =>
             IF o = "ok"
             THEN /\ calendars' = l
                  /\ IF p # <<>>
                     THEN /\ Len(selectedCalendars') = Len(p)
                          /\ \A k \in DOMAIN p : selectedCalendars'[k] = Synced(l, p[k])
                     ELSE IF \E j \in DOMAIN l : l[j].primary
                          THEN /\ Len(selectedCalendars') = 1
                               /\ selectedCalendars'[1].primary
                               /\ selectedCalendars'[1] \in Range(l)
                          ELSE selectedCalendars' = <<>>
             ELSE /\ calendars' = calendars
                  /\ selectedCalendars' = selectedCalendars
                  /\ error' # <<>>
                  /\ error' # error]_vars

\* the preferences were loaded with one out-of-date entry and one entry whose
\* calendar is gone: the first is replaced, the second kept
C11_Witness ==
    /\ mounted
    /\ calendars = AllCalendars
    /\ selectedCalendars = <<SavedX, CalB>>

\* nothing of the preference saving is in progress
PrefsSettled ==
    /\ mounted
    /\ calendars # <<>>
    /\ ~effectPending
    /\ prefTimers = <<>>

\* C14: once the timers have fired and the effects have run, the calendar list
\* most recently posted to set-preferred-calendars is the current
\* selectedCalendars, also when the user has deselected every calendar.
C14_LastPostIsTheSelection ==
    PrefsSettled =>
       /\ prefPosts # <<>>
       /\ prefPosts[Len(prefPosts)] = selectedCalendars

\* C15: a set-preferred-calendars POST is issued, and its timer armed, only
\* as a consequence of a user toggle of a calendar.  No behaviour of
\* SpecMount contains a toggle: the selection is populated by the mount
\* effect alone, so no timer is armed and no request issued.
C15_NoPostWithoutToggle ==
    /\ prefTimers = <<>>
    /\ prefPosts = <<>>

\* C16: a change of selectedCalendars clears the timer of the previous change
\* that has not fired, so that once the effects of a change have run at most
\* one timer is pending and it carries the current selection.
C16_OnePendingTimerForTheSelection ==
    ~effectPending =>
       /\ Len(prefTimers) <= 1
       /\ \A k \in DOMAIN prefTimers : prefTimers[k].calendars = selectedCalendars

-----------------------------------------------------------------------------
(* Properties of handleSubmit *)

UserMessages == {k \in DOMAIN chatMessages : chatMessages[k].sender = "user"}

\* C12: no natural-language-event request is sent with a blank text, no user
\* message with a blank text is appended and no blank command is tracked; an
\* invocation of handleSubmit with an empty or whitespace-only text, by the
\* Enter key or by the timer of the scheduleCalendarItem event, changes
\* nothing (the timer only goes away).
C12_BlankTextIsNeverSubmitted ==
    /\ [](/\ submit # NoCall => Trim(submit.text) # <<>>
          /\ \A k \in UserMessages : Trim(chatMessages[k].content) # <<>>
          /\ \A k \in DOMAIN popularCommands : Trim(popularCommands[k].text) # <<>>)
    /\ [][/\ (Trim(text) = <<>> /\ HandleSubmitByEnter) => UNCHANGED vars
          /\ (itemTimer # NoCall /\ Trim(itemTimer.text) = <<>> /\ ItemTimerFires)
                => UNCHANGED <<text, loading, error, availableSlots, calendarEvents,
                               existingEvents, showCalendar, eventDetails, selectedSlots,
                               chatMessages, submit, popularCommands>>]_vars

\* a calendar item was scheduled through the window event while the input was
\* blank: the timer has fired and nothing was sent
C12_Witness ==
    /\ text = ItemText
    /\ itemTimer = NoCall
    /\ submit = NoCall
    /\ chatMessages = <<WelcomeMsg>>
    /\ popularCommands = <<>>
    /\ ~loading

\* C13: handleSubmit appends exactly one user message before the request, and
\* when the request completes (success, success = false or exception) at
\* least one bot message is appended or the calendar is shown, whatever the
\* intent and whether or not the answer has a humanizedResponse.
C13_EveryAnswerIsRendered ==
    [][/\ (HandleSubmit \/ (Trim(text) # <<>> /\ HandleSubmitByEnter)) =>
             chatMessages' = Append(chatMessages, Msg("user", Undefined, text))
       /\ (submit # NoCall /\ submit' = NoCall) =>
             \/ /\ Len(chatMessages') > Len(chatMessages)
                /\ \A k \in (DOMAIN chatMessages') \ (DOMAIN chatMessages) :
                      chatMessages'[k].sender = "bot"
             \/ showCalendar']_vars

-----------------------------------------------------------------------------
(* Properties of the invocations of fetchExistingEvents *)

\* C17: at any time at most one invocation of fetchExistingEvents is past its
\* guard (its request, retries and backoff waits included), whichever function
\* instance the calls are made through.
C17_AtMostOneFetchInProgress == Len(fetches) <= 1

\* C18: with the calendar shown and the visible range and the selection
\* fixed, only finitely many get-events requests are issued: from some point
\* on no invocation is in progress and no effect is left to start one,
\* whatever the backend answers.
C18_FetchingQuiesces == <>[](fetches = <<>> /\ ~fetchingEvents /\ ~effectPending)

\* C19: fetchingEvents is true only while an invocation of fetchExistingEvents
\* is in progress; it changes only when an invocation starts or ends, and
\* the end of an invocation (an answer with or without success, or the last
\* failed attempt) sets it to false; a cache hit leaves it false; and whenever
\* it is true it becomes false again.
C19_FetchingEventsIsReset ==
    /\ [](fetchingEvents => fetches # <<>>)
    /\ [][/\ Len(fetches') < Len(fetches) => ~fetchingEvents'
          /\ Len(fetches') > Len(fetches) => fetchingEvents'
          /\ Len(fetches') = Len(fetches) => fetchingEvents' = fetchingEvents]_vars
    /\ (fetchingEvents ~> ~fetchingEvents)

\* one invocation has ended with events and written the cache, a later one
\* has used up its attempts
C19_Witness ==
    /\ ~fetchingEvents
    /\ fetches = <<>>
    /\ error = FailedToLoad
    /\ eventsCache # EmptyCache
    /\ showCalendar

\* C20: when the visible dates change while the calendar is shown, the
\* get-events request that handleDatesSet issues is for the new date range.
C20_DatesSetFetchesTheNewRange ==
    [][\A range \in DateRanges :
          (HandleDatesSet(range) /\ Len(fetches') > Len(fetches))
              => LET call == fetches'[Len(fetches')]
                 IN /\ call.startDate = formatDate(range.start)
                    /\ call.endDate = formatDate(range.end)]_vars

\* C21: a refreshCalendar event received while the calendar is shown and no
\* invocation of fetchExistingEvents is in progress issues a get-events
\* request, also when the cache holds a valid entry for the visible range;
\* a refreshCalendar event received while the calendar is hidden issues none.
\* Stated for the listener of the current render (its effects have run).
C21_RefreshReloadsFromTheBackend ==
    /\ (showCalendar /\ ~effectPending /\ fetches = <<>>)
          => ENABLED (RefreshCalendarEvent /\ Len(fetches') = 1)
    /\ (~showCalendar /\ ~effectPending)
          => ~ENABLED (RefreshCalendarEvent /\ fetches' # fetches)

\* the positions in the log of the events of one kind dispatched by a call
EventsOfCall(type, call) ==
    {k \in DOMAIN windowEvents : windowEvents[k].type = type /\ windowEvents[k].call = call}

CallInFlight(call) == \E i \in DOMAIN modifies : modifies[i].call = call

=============================================================================
